---- MODULE Spec2Model ----
(***************************************************************************)
(* pretty_size (src/src/main.rs): correlates the section sizes of a        *)
(* firmware image with the memory regions of a linker script, folds small  *)
(* sections into "miscellaneous", applies the user's section edits, prints *)
(* the report with the change since the last run and saves the layout.     *)
(***************************************************************************)
EXTENDS Integers, Sequences, FiniteSets, TLC

(***************************************************************************)
(* Machine integers.  TLC's integers are 32-bit, so a u32 or u64 of the    *)
(* program is a little-endian tuple of four 16-bit limbs:                  *)
(*   <<d1, d2, d3, d4>>  stands for  d1 + d2*2^16 + d3*2^32 + d4*2^48.     *)
(* A u32 has d3 = d4 = 0.                                                  *)
(***************************************************************************)
Base == 2 ^ 16

Limb == 0 .. (Base - 1)

IsU64(a) == a \in Limb \X Limb \X Limb \X Limb

IsU32(a) == IsU64(a) /\ a[3] = 0 /\ a[4] = 0

\* The number k (0 <= k < 2^31) as a machine integer.
Num(k) == << k % Base, k \div Base, 0, 0 >>

Zero == Num(0)

\* a + b with the carry out of the 64th bit.
AddC(a, b) ==
    LET s1 == a[1] + b[1]
        s2 == a[2] + b[2] + (s1 \div Base)
        s3 == a[3] + b[3] + (s2 \div Base)
        s4 == a[4] + b[4] + (s3 \div Base)
    IN  [val |-> << s1 % Base, s2 % Base, s3 % Base, s4 % Base >>,
         carry |-> s4 \div Base]

\* a - b for a >= b.
Sub(a, b) ==
    LET t1 == a[1] - b[1]
        w1 == IF t1 < 0 THEN 1 ELSE 0
        t2 == a[2] - b[2] - w1
        w2 == IF t2 < 0 THEN 1 ELSE 0
        t3 == a[3] - b[3] - w2
        w3 == IF t3 < 0 THEN 1 ELSE 0
        t4 == a[4] - b[4] - w3
    IN  << t1 + w1 * Base, t2 + w2 * Base, t3 + w3 * Base, t4 >>

\* k * a for a small factor k; the callers keep the product below 2^64.
MulSmall(k, a) ==
    LET p1 == k * a[1]
        p2 == k * a[2] + (p1 \div Base)
        p3 == k * a[3] + (p2 \div Base)
        p4 == k * a[4] + (p3 \div Base)
    IN  << p1 % Base, p2 % Base, p3 % Base, p4 % Base >>

Less(a, b) ==
    \/ a[4] < b[4]
    \/ a[4] = b[4] /\ a[3] < b[3]
    \/ a[4] = b[4] /\ a[3] = b[3] /\ a[2] < b[2]
    \/ a[4] = b[4] /\ a[3] = b[3] /\ a[2] = b[2] /\ a[1] < b[1]

\* `x as u32`: the low 32 bits.
AsU32(a) == << a[1], a[2], 0, 0 >>

\* u32 + u32: the wrapped sum and whether it left the u32 range.
AddU32(a, b) ==
    LET s == AddC(a, b).val
    IN  [val |-> AsU32(s), overflow |-> s[3] # 0]

\* u64 + u64: the wrapped sum and whether it left the u64 range.
AddU64(a, b) ==
    LET s == AddC(a, b)
    IN  [val |-> s.val, overflow |-> s.carry # 0]

\* `a as i64 - b as i64` for u32 a, b: a sign and a magnitude.
SubI64(a, b) ==
    IF Less(a, b) THEN [neg |-> TRUE, mag |-> Sub(b, a)]
                  ELSE [neg |-> FALSE, mag |-> Sub(a, b)]

ZeroI64 == [neg |-> FALSE, mag |-> Zero]

(***************************************************************************)
(* Option<T>: None is the empty tuple, Some(x) the one-element tuple.      *)
(***************************************************************************)
None == << >>

Some(x) == << x >>

IsSome(o) == o # << >>

Unwrap(o) == o[1]

MapOr(o, default) == IF o = << >> THEN default ELSE o[1]

(***************************************************************************)
(* Sequence helpers (Vec::remove, Vec::insert(0, _), Iterator::position).  *)
(***************************************************************************)
Remove(s, i) == SubSeq(s, 1, i - 1) \o SubSeq(s, i + 1, Len(s))

InsertFront(s, x) == << x >> \o s

\* Index of the first element whose name is `name`, or 0.
PositionByName(s, name) ==
    IF \E i \in 1 .. Len(s) : s[i].name = name
    THEN CHOOSE i \in 1 .. Len(s) :
             /\ s[i].name = name
             /\ \A j \in 1 .. (i - 1) : s[j].name # name
    ELSE 0

(***************************************************************************)
(* get_sections_sizes: the table printed by `size -A -d`, one row per      *)
(* section, folded into a HashMap from section name to size.  A row is     *)
(* [name, size, addr]; addr is what the third column parses to:            *)
(* "missing" (no third column), "unparsable", "zero" or "nonzero".         *)
(***************************************************************************)
HashInsert(map, key, value) ==
    [k \in (DOMAIN map) \cup {key} |-> IF k = key THEN value ELSE map[k]]

EmptyMap == [k \in {} |-> Zero]

RECURSIVE SectionsOfRows(_, _)
SectionsOfRows(rows, map) ==
    IF rows = << >> THEN map
    ELSE LET row == Head(rows)
             keep == /\ row.size # Zero
                     /\ row.addr = "nonzero"
         IN  SectionsOfRows(Tail(rows),
                            IF keep THEN HashInsert(map, row.name, row.size)
                                    ELSE map)

\* The names of the rows the loop inserts (line 244), in the order of the
\* table.
RECURSIVE InsertedNames(_)
InsertedNames(rows) ==
    IF rows = << >> THEN << >>
    ELSE LET row == Head(rows)
         IN  IF row.size # Zero /\ row.addr = "nonzero"
             THEN << row.name >> \o InsertedNames(Tail(rows))
             ELSE InsertedNames(Tail(rows))

(***************************************************************************)
(* The placement rules of the linker script: the output sections that name *)
(* a region, as (name, region, lma_region).                                *)
(***************************************************************************)
RECURSIVE PlacementRules(_)
PlacementRules(output_sections) ==
    IF output_sections = << >> THEN << >>
    ELSE LET o == Head(output_sections)
             rest == PlacementRules(Tail(output_sections))
         IN  IF IsSome(o.region)
             THEN << [name |-> o.name, region |-> Unwrap(o.region),
                      lma_region |-> o.lma_region] >> \o rest
             ELSE rest

(***************************************************************************)
(* The correlator: the rules that place a section in the region (by its    *)
(* region or its load region), each replaced by the section's record when  *)
(* the section has a size in the table and none otherwise.                 *)
(***************************************************************************)
\* The match on the primary region alone.
RuleNamesRegionPrimaryOnly(rule, reg_name) == rule.region = reg_name

RuleNamesRegion(rule, reg_name) ==
    \/ rule.region = reg_name
    \/ MapOr(rule.lma_region, "") = reg_name

\* The correlator collecting its records from the last rule to the first.
RECURSIVE CorrelateRegionReversed(_, _, _)
CorrelateRegionReversed(reg_name, rules, sections_sizes) ==
    IF rules = << >> THEN << >>
    ELSE LET rule == Head(rules)
             rest == CorrelateRegionReversed(reg_name, Tail(rules), sections_sizes)
         IN  IF /\ RuleNamesRegion(rule, reg_name)
                /\ rule.name \in DOMAIN sections_sizes
                /\ sections_sizes[rule.name] # Zero
             THEN rest \o
                  << [name |-> rule.name, size |-> sections_sizes[rule.name]] >>
             ELSE rest

RECURSIVE CorrelateRegion(_, _, _)
CorrelateRegion(reg_name, rules, sections_sizes) ==
    IF rules = << >> THEN << >>
    ELSE LET rule == Head(rules)
             rest == CorrelateRegion(reg_name, Tail(rules), sections_sizes)
         IN  IF /\ RuleNamesRegion(rule, reg_name)
                /\ rule.name \in DOMAIN sections_sizes
                /\ sections_sizes[rule.name] # Zero
             THEN << [name |-> rule.name, size |-> sections_sizes[rule.name]] >>
                  \o rest
             ELSE rest

(***************************************************************************)
(* The aggregator.  percentage = 100.0 * size / length in f64, compared    *)
(* with 2.0.  For a u32 size and a u64 length the f64 rounding never       *)
(* changes the comparison (100*size is exact, and the quotient is within   *)
(* one rounding of 2.0 only when it equals 2.0), and a zero length gives   *)
(* +inf, so percentage < 2.0 is exactly 50 * size < length.                *)
(***************************************************************************)
PercentageBelowThreshold(size, length) == Less(MulSmall(50, size), length)

\* drain_filter: the loop over index i, removing the matching elements.
RECURSIVE DrainFilter(_, _, _, _)
DrainFilter(vec, i, ret, length) ==
    IF i > Len(vec) THEN [ret |-> ret, vec |-> vec]
    ELSE IF PercentageBelowThreshold(vec[i].size, length)
         THEN DrainFilter(Remove(vec, i), i, Append(ret, vec[i]), length)
         ELSE DrainFilter(vec, i + 1, ret, length)

\* fold(0u32, |acc, size| acc + size): the wrapped sum, and whether an
\* addition overflowed on the way.
RECURSIVE FoldSizes(_, _)
FoldSizes(records, acc) ==
    IF records = << >> THEN acc
    ELSE LET s == AddU32(acc.val, Head(records).size)
         IN  FoldSizes(Tail(records),
                       [val |-> s.val, overflow |-> acc.overflow \/ s.overflow])

FoldStart == [val |-> Zero, overflow |-> FALSE]

MiscName == "miscellaneous"

\* The section list of a region after aggregation, and whether the sum of
\* the folded sections overflowed.
Aggregate(sections, length) ==
    LET drained == DrainFilter(sections, 1, << >>, length)
        misc_size == FoldSizes(drained.ret, FoldStart)
    IN  IF drained.ret # << >>
        THEN [sections |-> Append(drained.vec,
                                  [name |-> MiscName, size |-> misc_size.val]),
              overflow |-> misc_size.overflow]
        ELSE [sections |-> drained.vec, overflow |-> FALSE]

(***************************************************************************)
(* The edits.  Each returns the layout after the edit and whether an       *)
(* addition overflowed.                                                    *)
(***************************************************************************)
\* GroupRegions that also moves the sections of the source region to the
\* end of the destination's list.
GroupRegionsMovingSections(layout, e) ==
    LET index == PositionByName(layout, e.region_to_insert_as_section)
    IN  IF index = 0 THEN [layout |-> layout, overflow |-> FALSE]
        ELSE LET bootloader_reg == layout[index]
                 removed == Remove(layout, index)
                 dest == PositionByName(removed, e.output_region)
             IN  IF dest = 0 THEN [layout |-> removed, overflow |-> FALSE]
                 ELSE LET reg == removed[dest]
                          sum == AddU64(reg.length, bootloader_reg.length)
                          record == [name |-> e.output_section_name,
                                     size |-> AsU32(bootloader_reg.length)]
                      IN  [layout |->
                             [removed EXCEPT ![dest] =
                                [name |-> reg.name,
                                 length |-> sum.val,
                                 sections |-> InsertFront(reg.sections, record)
                                              \o bootloader_reg.sections]],
                           overflow |-> sum.overflow]

\* GroupRegions that leaves the source region in the layout.
GroupRegionsKeepingSource(layout, e) ==
    LET index == PositionByName(layout, e.region_to_insert_as_section)
        dest == PositionByName(layout, e.output_region)
    IN  IF index = 0 \/ dest = 0 \/ dest = index
        THEN [layout |-> layout, overflow |-> FALSE]
        ELSE LET sum == AddU64(layout[dest].length, layout[index].length)
                 record == [name |-> e.output_section_name,
                            size |-> AsU32(layout[index].length)]
             IN  [layout |->
                    [layout EXCEPT ![dest] =
                       [name |-> layout[dest].name,
                        length |-> sum.val,
                        sections |-> InsertFront(layout[dest].sections, record)]],
                  overflow |-> sum.overflow]

GroupRegions(layout, e) ==
    LET index == PositionByName(layout, e.region_to_insert_as_section)
    IN  IF index = 0 THEN [layout |-> layout, overflow |-> FALSE]
        ELSE LET bootloader_reg == layout[index]
                 removed == Remove(layout, index)
                 dest == PositionByName(removed, e.output_region)
             IN  IF dest = 0 THEN [layout |-> removed, overflow |-> FALSE]
                 ELSE LET reg == removed[dest]
                          sum == AddU64(reg.length, bootloader_reg.length)
                          record == [name |-> e.output_section_name,
                                     size |-> AsU32(bootloader_reg.length)]
                      IN  [layout |->
                             [removed EXCEPT ![dest] =
                                [name |-> reg.name,
                                 length |-> sum.val,
                                 sections |-> InsertFront(reg.sections, record)]],
                           overflow |-> sum.overflow]

\* Ignore that removes every record of the name.
IgnoreAllNamed(layout, e) ==
    LET r == PositionByName(layout, e.region_name)
        Other(record) == record.name # e.section_name_to_ignore
    IN  IF r = 0 THEN [layout |-> layout, overflow |-> FALSE]
        ELSE [layout |-> [layout EXCEPT ![r].sections = SelectSeq(@, Other)],
              overflow |-> FALSE]

Ignore(layout, e) ==
    LET r == PositionByName(layout, e.region_name)
    IN  IF r = 0 THEN [layout |-> layout, overflow |-> FALSE]
        ELSE LET index == PositionByName(layout[r].sections,
                                         e.section_name_to_ignore)
             IN  IF index = 0 THEN [layout |-> layout, overflow |-> FALSE]
                 ELSE [layout |->
                         [layout EXCEPT ![r].sections = Remove(@, index)],
                       overflow |-> FALSE]

ApplyEdit(layout, e) ==
    IF e.kind = "GroupRegions" THEN GroupRegions(layout, e) ELSE Ignore(layout, e)

\* section_edits.iter().for_each: the edits applied in order.  The result is
\* the layout, or a panic when an addition overflows in a build that checks
\* (checks is TRUE).
RECURSIVE RunEdits(_, _, _)
RunEdits(layout, edits, checks) ==
    IF edits = << >> THEN [panicked |-> FALSE, layout |-> layout]
    ELSE LET a == ApplyEdit(layout, Head(edits))
         IN  IF a.overflow /\ checks
             THEN [panicked |-> TRUE, layout |-> << >>]
             ELSE RunEdits(a.layout, Tail(edits), checks)

(***************************************************************************)
(* The differ of print_memory_sections: the records of a region, each with *)
(* its change since the last run.                                          *)
(***************************************************************************)
PrevSections(reg_name, regions_prev) ==
    IF regions_prev = None THEN None
    ELSE LET i == PositionByName(Unwrap(regions_prev), reg_name)
         IN  IF i = 0 THEN None ELSE Some(Unwrap(regions_prev)[i].sections)

\* The previous size of a section the last run did not have taken as zero.
PreviousSizeOrZero(record, prev_s) ==
    LET i == PositionByName(prev_s, record.name)
    IN  IF i = 0 THEN Zero ELSE prev_s[i].size

PreviousSize(record, prev_s) ==
    LET i == PositionByName(prev_s, record.name)
    IN  IF i = 0 THEN record.size ELSE prev_s[i].size

SectionsWithDiff(reg, regions_prev) ==
    LET prev_sections == PrevSections(reg.name, regions_prev)
    IN  [i \in 1 .. Len(reg.sections) |->
           LET record == reg.sections[i]
           IN  [name |-> record.name,
                size |-> record.size,
                diff |-> IF prev_sections = None THEN ZeroI64
                         ELSE SubI64(record.size,
                                     PreviousSize(record, Unwrap(prev_sections)))]]

\* print_region: total_usage, the u32 sum of the sizes of the region.
TotalUsage(sections) == FoldSizes(sections, FoldStart)

(***************************************************************************)
(* sizeof_fmt: a u32 as text.  Below 1024 it is format!("{}", num); from   *)
(* 1024 on the number becomes an f32, is divided by 1024.0 until it is     *)
(* below 1024.0, and is written with two decimals and the unit.            *)
(* An f32 is [m, e], standing for m * 2^e with m <= 2^24.                  *)
(***************************************************************************)
Digit(d) == SubSeq("0123456789", d + 1, d + 1)

\* format!("{}", n) of an unsigned integer.
RECURSIVE Decimal(_)
Decimal(n) == IF n < 10 THEN Digit(n) ELSE Decimal(n \div 10) \o Digit(n % 10)

RECURSIVE BitLen(_)
BitLen(h) == IF h = 0 THEN 0 ELSE 1 + BitLen(h \div 2)

\* `num as f32`: the nearest f32, ties to the even significand.  A u32
\* below 2^24 is exact; a larger one loses its low s bits.
AsF32(num) ==
    IF num[2] < 256 THEN [m |-> num[2] * Base + num[1], e |-> 0]
    ELSE LET s == BitLen(num[2]) - 8
             m0 == num[2] * (Base \div (2 ^ s)) + (num[1] \div (2 ^ s))
             r == num[1] % (2 ^ s)
             half == 2 ^ (s - 1)
             up == r > half \/ (r = half /\ m0 % 2 = 1)
         IN  [m |-> IF up THEN m0 + 1 ELSE m0, e |-> s]

\* num / 1024.0: exact, the exponent drops by ten.
F32Div1024(f) == [m |-> f.m, e |-> f.e - 10]

\* num.abs() < 1024.0, for an f32 that is not negative.
F32Below1024(f) ==
    LET k == 10 - f.e
    IN  IF k > 30 THEN TRUE
        ELSE IF k < 0 THEN f.m = 0
        ELSE f.m < 2 ^ k

\* format!("{:.2}", num) for an f32 with a negative exponent: the exact
\* value rounded to hundredths, a tie going to the even digit.
FormatTwoDecimals(f) ==
    LET d == 2 ^ (0 - f.e)
        n == 100 * f.m
        q == n \div d
        r == n % d
        h == IF 2 * r > d \/ (2 * r = d /\ q % 2 = 1) THEN q + 1 ELSE q
    IN  Decimal(h \div 100) \o "." \o Digit((h \div 10) % 10) \o Digit(h % 10)

Units == << "Ki", "Mi", "Gi", "Ti", "Pi", "Ei", "Zi" >>

\* The for loop of sizeof_fmt over the units left.
RECURSIVE SizeofFmtLoop(_, _)
SizeofFmtLoop(num, units) ==
    IF units = << >> THEN FormatTwoDecimals(num) \o " YiB"
    ELSE IF F32Below1024(num)
         THEN FormatTwoDecimals(num) \o " " \o Head(units) \o "B"
         ELSE SizeofFmtLoop(F32Div1024(num), Tail(units))

sizeof_fmt(num) ==
    IF num[2] = 0 /\ num[1] < 1024 THEN Decimal(num[1])
    ELSE SizeofFmtLoop(F32Div1024(AsF32(num)), Units)

\* print_region, lines 339-343: the text of a change; diff is never
\* beyond the u32 range in either direction.
DiffString(diff) ==
    IF diff.mag = Zero THEN ""
    ELSE IF diff.neg THEN "-" \o sizeof_fmt(diff.mag)
    ELSE "+" \o sizeof_fmt(diff.mag)

(***************************************************************************)
(* The bar of print_region.  The f32 operations round to the nearest       *)
(* value, ties to the even significand; the operands here are never        *)
(* subnormal and the results never overflow.                               *)
(***************************************************************************)
\* p * 2^e, for an integer p below 2^31, as an f32.
RoundToF32(p, e) ==
    IF BitLen(p) <= 24 THEN [m |-> p, e |-> e]
    ELSE LET s == BitLen(p) - 24
             m0 == p \div (2 ^ s)
             r == p % (2 ^ s)
             half == 2 ^ (s - 1)
             up == r > half \/ (r = half /\ m0 % 2 = 1)
         IN  [m |-> IF up THEN m0 + 1 ELSE m0, e |-> e + s]

\* The long division n / d, one bit at a time, until the quotient has 25
\* bits: q the quotient so far, r the remainder, k the bits after the point.
RECURSIVE DivBits(_, _, _, _)
DivBits(q, r, d, k) ==
    IF q >= 2 ^ 24 THEN [q |-> q, r |-> r, k |-> k]
    ELSE IF 2 * r >= d THEN DivBits(2 * q + 1, 2 * r - d, d, k + 1)
    ELSE DivBits(2 * q, 2 * r, d, k + 1)

\* a / b for f32 a, b above zero.
F32Div(a, b) ==
    LET x == DivBits(a.m \div b.m, a.m % b.m, b.m, 0)
        m0 == x.q \div 2
        up == x.q % 2 = 1 /\ (x.r # 0 \/ m0 % 2 = 1)
    IN  [m |-> IF up THEN m0 + 1 ELSE m0, e |-> a.e - b.e - x.k + 1]

\* `x.round() as u8` for an f32 that is not negative: to the nearest
\* integer, a tie away from zero, and then saturated at 255.
RoundAsU8(f) ==
    IF f.m = 0 THEN 0
    ELSE IF f.e >= 0
         THEN IF f.m >= 256 \/ f.e >= 8 \/ f.m * (2 ^ f.e) >= 256
              THEN 255 ELSE f.m * (2 ^ f.e)
    ELSE IF 0 - f.e > 30 THEN 0
    ELSE LET d == 2 ^ (0 - f.e)
             v == (f.m \div d) + (IF 2 * (f.m % d) >= d THEN 1 ELSE 0)
         IN  IF v >= 256 THEN 255 ELSE v

BAR_LENGTH == 47

\* Lines 295, 312-313: (size_to_ratio(ssize) * BAR_LENGTH as f32).round()
\* as u8.  A region of size zero makes the ratio infinite, or NaN for a
\* section of size zero; as u8 these are 255 and 0.
Bar(ssize, region_size) ==
    IF ssize = Zero THEN 0
    ELSE IF region_size = Zero THEN 255
    ELSE LET ratio == F32Div(AsF32(ssize), AsF32(region_size))
         IN  RoundAsU8(RoundToF32(ratio.m * BAR_LENGTH, ratio.e))

\* Line 325: bars.iter().sum(), before it is cut to a u8.
RECURSIVE UsedBars(_, _)
UsedBars(sections, region_size) ==
    IF sections = << >> THEN 0
    ELSE Bar(Head(sections).size, region_size)
         + UsedBars(Tail(sections), region_size)

\* aligned, lines 192 and 201: width = 24 - title.len() leaves the usize
\* range for a title of more than 24 bytes.
WidthUnderflows(title) == Len(title) > 24

\* What that does: a build that checks panics at the subtraction, one that
\* does not hands the wrapped width to format!, which panics.
WidthPanic(checks) ==
    IF checks THEN "attempt to subtract with overflow"
    ELSE "Formatting argument out of range"

\* The section lines of print_region (lines 333-358) that are written:
\* those before the first whose name is too long for aligned.
LinesWritten(sections) ==
    IF \E i \in 1 .. Len(sections) : WidthUnderflows(sections[i].name)
    THEN (CHOOSE i \in 1 .. Len(sections) :
              /\ WidthUnderflows(sections[i].name)
              /\ \A j \in 1 .. (i - 1) : ~WidthUnderflows(sections[j].name)) - 1
    ELSE Len(sections)

\* The sizes print_region has written for a region when n of its section
\* lines are out: the heading "name used: total / capacity" and the lines.
\* The bar and the percentages are left out.
RegionWritten(name, region_size, sections, total_usage, n) ==
    [name |-> name,
     used |-> sizeof_fmt(total_usage),
     capacity |-> sizeof_fmt(region_size),
     lines |-> [i \in 1 .. n |->
                  [name |-> sections[i].name,
                   size |-> sizeof_fmt(sections[i].size),
                   diff |-> DiffString(sections[i].diff)]]]

\* print_region: the panic it ends with, if any, and what it has written
\* of the region, if anything.  In order: the sum of the sizes (line 294),
\* the heading (297-307), the bar and the sum of its parts (309-325), the
\* section lines (333-358).  checks is TRUE in a build that checks integer
\* overflow.
print_region(name, region_size, sections, checks) ==
    LET total_usage == TotalUsage(sections)
        n == LinesWritten(sections)
    IN  IF total_usage.overflow /\ checks
        THEN [panic |-> Some("attempt to add with overflow"), written |-> None]
        ELSE IF WidthUnderflows(name \o " used")
        THEN [panic |-> Some(WidthPanic(checks)), written |-> None]
        ELSE IF UsedBars(sections, region_size) > 255 /\ checks
        THEN [panic |-> Some("attempt to add with overflow"),
              written |-> Some(RegionWritten(name, region_size, sections,
                                             total_usage.val, 0))]
        ELSE [panic |-> IF n < Len(sections) THEN Some(WidthPanic(checks))
                        ELSE None,
              written |-> Some(RegionWritten(name, region_size, sections,
                                             total_usage.val, n))]

(***************************************************************************)
(* The run of main.  Each variable is a value main or                      *)
(* get_regions_and_sections_from_linker_script holds:                      *)
(*   pc               where the run is                                     *)
(*   error            the message main ends with (None while it runs)      *)
(*   overflow_checks  the build: TRUE when an integer overflow panics      *)
(*                    (debug), FALSE when it wraps (release)               *)
(*   last_sizes       the layout of the last run, Option                   *)
(*   sections_sizes   the HashMap of get_sections_sizes                    *)
(*   edits_file       the path handed to get_section_edits                 *)
(*   regions          the regions of the MEMORY command                    *)
(*   rules            the placement rules (`sections`, line 407)           *)
(*   ri               index of the region the map/for_each is at           *)
(*   sections         the section list of region ri (line 431)             *)
(*   regions_better   the layout                                           *)
(*   section_edits    the decoded edits, Option                            *)
(*   ei               index of the next edit                               *)
(*   report           what the differ handed to print_region, per region   *)
(*   saved            the layout written to fw-size.last, Option           *)
(*   discovered       the section names in the order the loop over the     *)
(*                    size table inserted them into the map (the map       *)
(*                    itself keeps no order)                               *)
(*   printed          what print_region wrote, one entry per region        *)
(***************************************************************************)
VARIABLES pc, error, overflow_checks, last_sizes, sections_sizes, edits_file,
          regions, rules, ri, sections, regions_better, section_edits, ei,
          report, saved, discovered, printed

vars == << pc, error, overflow_checks, last_sizes, sections_sizes, edits_file,
           regions, rules, ri, sections, regions_better, section_edits, ei,
           report, saved, discovered, printed >>

Init ==
    /\ pc = "start"
    /\ error = None
    /\ overflow_checks \in BOOLEAN
    /\ last_sizes = None
    /\ sections_sizes = EmptyMap
    /\ edits_file = ""
    /\ regions = << >>
    /\ rules = << >>
    /\ ri = 1
    /\ sections = << >>
    /\ regions_better = << >>
    /\ section_edits = None
    /\ ei = 1
    /\ report = << >>
    /\ saved = None
    /\ discovered = << >>
    /\ printed = << >>

\* main returns Err(message).
Fail(message) ==
    /\ pc' = "failed"
    /\ error' = Some(message)

\* The process panics.
Panic(message) ==
    /\ pc' = "panicked"
    /\ error' = Some(message)

\* The ELF paths of a run: a file in the current directory, the root
\* directory (it exists and has no parent), and a path that does not exist.
ElfPaths ==
    {[path |-> "fw.elf", exists |-> TRUE, parent |-> Some("")],
     [path |-> "/", exists |-> TRUE, parent |-> None],
     [path |-> "missing.elf", exists |-> FALSE, parent |-> Some("")]}

\* Lines 111-122: the ELF path must exist, and its parent, the build
\* directory, is unwrapped.
CheckElf ==
    /\ pc = "start"
    /\ \E elf \in ElfPaths :
          IF ~elf.exists THEN Fail("No such file")
          ELSE IF elf.parent = None THEN Panic("called unwrap on a None value")
          ELSE pc' = "history" /\ UNCHANGED error
    /\ UNCHANGED << overflow_checks, last_sizes, sections_sizes, edits_file,
                    regions, rules, ri, sections, regions_better,
                    section_edits, ei, report, saved,
                    discovered, printed >>

\* Lines 124-136: fw-size.last, when it exists, is read and decoded; a
\* content that does not decode gives None; a file that cannot be opened
\* (lines 128-129) or read (lines 132-133) ends the run.  h.kind is
\* "absent", "unopenable", "unreadable", "malformed" or "layout".
ReadHistory(history_files) ==
    /\ pc = "history"
    /\ \E h \in history_files :
          CASE h.kind = "absent" ->
                 /\ last_sizes' = None
                 /\ pc' = "sizes"
                 /\ UNCHANGED error
            [] h.kind = "unopenable" ->
                 /\ Fail("Couldn't open fw-size.last")
                 /\ UNCHANGED last_sizes
            [] h.kind = "unreadable" ->
                 /\ Fail("Couldn't read fw-size.last")
                 /\ UNCHANGED last_sizes
            [] h.kind = "malformed" ->
                 /\ last_sizes' = None
                 /\ pc' = "sizes"
                 /\ UNCHANGED error
            [] h.kind = "layout" ->
                 /\ last_sizes' = Some(h.layout)
                 /\ pc' = "sizes"
                 /\ UNCHANGED error
    /\ UNCHANGED << overflow_checks, sections_sizes, edits_file, regions,
                    rules, ri, sections, regions_better, section_edits, ei,
                    report, saved,
                    discovered, printed >>

\* Lines 138-146: the size program is run and its table folded into the
\* map; then the edits path is taken from the command line, "" when the
\* option is absent.  o.kind is "spawn_failed", "not_utf8", "bad_row" (a
\* row without a size column, first unwrap of line 235), "bad_size" (a
\* size column that is no u32, second unwrap of line 235) or "table"; arg
\* is the value of --section-edits, Option.
GetSectionsSizes(size_outputs, edits_args) ==
    /\ pc = "sizes"
    /\ \E o \in size_outputs, arg \in edits_args :
          CASE o.kind = "spawn_failed" ->
                 /\ Panic("failed to execute size")
                 /\ UNCHANGED << sections_sizes, edits_file, discovered >>
            [] o.kind = "not_utf8" ->
                 /\ Fail("Could not read sections of file")
                 /\ UNCHANGED << sections_sizes, edits_file, discovered >>
            [] o.kind = "bad_row" ->
                 /\ Panic("called unwrap on a None value")
                 /\ UNCHANGED << sections_sizes, edits_file, discovered >>
            [] o.kind = "bad_size" ->
                 /\ Panic("called unwrap on an Err value")
                 /\ UNCHANGED << sections_sizes, edits_file, discovered >>
            [] o.kind = "table" ->
                 /\ sections_sizes' = SectionsOfRows(o.rows, EmptyMap)
                 /\ discovered' = InsertedNames(o.rows)
                 /\ edits_file' = MapOr(arg, "")
                 /\ pc' = "ld"
                 /\ UNCHANGED error
    /\ UNCHANGED << overflow_checks, last_sizes, regions, rules, ri, sections,
                    regions_better, section_edits, ei, report, saved,
                    printed >>

\* Lines 383-425: the linker script is opened, parsed, and its first MEMORY
\* command and its output sections are taken.  l.kind is "missing" (the
\* open of lines 384-385 fails), "unreadable" (the read of lines 386-392
\* fails: a directory, a content that is no UTF-8), "garbled" or "script".
ReadLinkerScript(linker_scripts) ==
    /\ pc = "ld"
    /\ \E l \in linker_scripts :
          CASE l.kind = "missing" ->
                 /\ Fail("Invalid linker script path")
                 /\ UNCHANGED << regions, rules >>
            [] l.kind = "unreadable" ->
                 /\ Fail("Could not read linker script as string")
                 /\ UNCHANGED << regions, rules >>
            [] l.kind = "garbled" ->
                 /\ Fail("Failed to parse linker script")
                 /\ UNCHANGED << regions, rules >>
            [] l.kind = "script" /\ l.memory = << >> ->
                 /\ Fail("Could not find REGIONS")
                 /\ UNCHANGED << regions, rules >>
            [] l.kind = "script" /\ l.memory # << >> ->
                 /\ regions' = Head(l.memory)
                 /\ rules' = PlacementRules(l.output_sections)
                 /\ pc' = "correlate"
                 /\ UNCHANGED error
    /\ ri' = 1
    /\ UNCHANGED << overflow_checks, last_sizes, sections_sizes, edits_file,
                    sections, regions_better, section_edits, ei, report,
                    saved,
                    discovered, printed >>

\* Lines 428-444: the section list of region ri.
Correlate ==
    /\ pc = "correlate"
    /\ ri <= Len(regions)
    /\ sections' = CorrelateRegion(regions[ri].name, rules, sections_sizes)
    /\ pc' = "aggregate"
    /\ UNCHANGED << error, overflow_checks, last_sizes, sections_sizes,
                    edits_file, regions, rules, ri, regions_better,
                    section_edits, ei, report, saved,
                    discovered, printed >>

\* Lines 446-464: the small sections of region ri are folded into
\* "miscellaneous" and the region joins the layout.
AggregateRegion ==
    /\ pc = "aggregate"
    /\ LET a == Aggregate(sections, regions[ri].length)
       IN  IF a.overflow /\ overflow_checks
           THEN /\ Panic("attempt to add with overflow")
                /\ UNCHANGED << ri, sections, regions_better >>
           ELSE /\ regions_better' =
                      Append(regions_better,
                             [name |-> regions[ri].name,
                              length |-> regions[ri].length,
                              sections |-> a.sections])
                /\ sections' = a.sections
                /\ ri' = ri + 1
                /\ pc' = "correlate"
                /\ UNCHANGED error
    /\ UNCHANGED << overflow_checks, last_sizes, sections_sizes, edits_file,
                    regions, rules, section_edits, ei, report, saved,
                    discovered, printed >>

\* Path::is_absolute on the paths of a unix system.
IsAbsolute(path) == Len(path) > 0 /\ SubSeq(path, 1, 1) = "/"

\* Lines 536-547: an absolute path is returned as it is; another one is
\* joined to the current directory, and env::current_dir() fails when that
\* directory cannot be told (it was removed): None.  cwd is the current
\* directory, Option.  The paths of the model have no "." or ".." for
\* clean() to remove; the join of "" is the directory itself.
absolute_path(path, cwd) ==
    IF IsAbsolute(path) THEN Some(path)
    ELSE IF cwd = None THEN None
    ELSE IF path = "" THEN cwd
    ELSE Some(Unwrap(cwd) \o "/" \o path)

\* Lines 467, 516-534: after the last region the edits file is read.  A path
\* that does not exist is an error: the one of its absolute path that cannot
\* be resolved (lines 519-520), or else the one of the missing file (lines
\* 521-524).  A file that cannot be opened or read as text is an error too;
\* a text that does not decode gives None.  A file system fs has the
\* current directory fs.cwd, Option, and fs.files, which maps the paths that
\* exist to their content: [kind |-> "unopenable"], [kind |-> "unreadable"],
\* [kind |-> "malformed"] or [kind |-> "edits", edits |-> the list].
GetSectionEdits(file_systems) ==
    /\ pc = "correlate"
    /\ ri > Len(regions)
    /\ \E fs \in file_systems :
       LET files == fs.files IN
          IF edits_file \notin DOMAIN files
          THEN /\ IF absolute_path(edits_file, fs.cwd) = None
                  THEN Fail("Couldn't resolve edits file path")
                  ELSE Fail("Section edits file does not exist")
               /\ UNCHANGED << section_edits, ei >>
          ELSE IF files[edits_file].kind = "unopenable"
          THEN /\ Fail("Couldn't open edits file")
               /\ UNCHANGED << section_edits, ei >>
          ELSE IF files[edits_file].kind = "unreadable"
          THEN /\ Fail("Couldn't read edits file")
               /\ UNCHANGED << section_edits, ei >>
          ELSE /\ section_edits' =
                     IF files[edits_file].kind = "edits"
                     THEN Some(files[edits_file].edits)
                     ELSE None
               /\ ei' = 1
               /\ pc' = "edits"
               /\ UNCHANGED error
    /\ UNCHANGED << overflow_checks, last_sizes, sections_sizes, edits_file,
                    regions, rules, ri, sections, regions_better, report,
                    saved,
                    discovered, printed >>

\* Lines 470-510: the next edit is applied to the layout.
ApplyNextEdit ==
    /\ pc = "edits"
    /\ section_edits # None
    /\ ei <= Len(Unwrap(section_edits))
    /\ LET a == ApplyEdit(regions_better, Unwrap(section_edits)[ei])
       IN  IF a.overflow /\ overflow_checks
           THEN /\ Panic("attempt to add with overflow")
                /\ UNCHANGED << regions_better, ei >>
           ELSE /\ regions_better' = a.layout
                /\ ei' = ei + 1
                /\ UNCHANGED << pc, error >>
    /\ UNCHANGED << overflow_checks, last_sizes, sections_sizes, edits_file,
                    regions, rules, ri, sections, section_edits, report, saved,
                    discovered, printed >>

\* Lines 469, 511-513, 148-152: with no edits, or after the last one, the
\* layout is returned to main, which starts the report; the locals of
\* get_regions_and_sections_from_linker_script are dropped.
ReturnLayout ==
    /\ pc = "edits"
    /\ IF section_edits = None THEN TRUE ELSE ei > Len(Unwrap(section_edits))
    /\ pc' = "print"
    /\ ri' = 1
    /\ regions' = << >>
    /\ rules' = << >>
    /\ sections' = << >>
    /\ UNCHANGED << error, overflow_checks, last_sizes, sections_sizes,
                    edits_file, regions_better, section_edits, ei, report,
                    saved,
                    discovered, printed >>

\* Lines 259-288, 293-360: region ri is diffed against the last run and
\* handed to print_region, which writes the region or panics on the way.
PrintNextRegion ==
    /\ pc = "print"
    /\ ri <= Len(regions_better)
    /\ report' = Append(report, SectionsWithDiff(regions_better[ri], last_sizes))
    /\ LET reg == regions_better[ri]
           out == print_region(reg.name, AsU32(reg.length),
                               SectionsWithDiff(reg, last_sizes),
                               overflow_checks)
       IN  /\ printed' = IF out.written = None THEN printed
                         ELSE Append(printed, Unwrap(out.written))
           /\ IF out.panic # None
              THEN /\ Panic(Unwrap(out.panic))
                   /\ UNCHANGED ri
              ELSE /\ ri' = ri + 1
                   /\ UNCHANGED << pc, error >>
    /\ UNCHANGED << overflow_checks, last_sizes, sections_sizes, edits_file,
                    regions, rules, sections, regions_better, section_edits,
                    ei, saved, discovered >>

\* Lines 154-164: the layout is written to fw-size.last.
Save ==
    /\ pc = "print"
    /\ ri > Len(regions_better)
    /\ \E written \in BOOLEAN :
          IF written
          THEN /\ saved' = Some(regions_better)
               /\ pc' = "done"
               /\ UNCHANGED error
          ELSE /\ Fail("Could not write to fw-size.last")
               /\ UNCHANGED saved
    /\ UNCHANGED << overflow_checks, last_sizes, sections_sizes, edits_file,
                    regions, rules, ri, sections, regions_better,
                    section_edits, ei, report,
                    discovered, printed >>

(***************************************************************************)
(* The inputs of a run, drawn from small sets.                             *)
(***************************************************************************)
\* Bounds.
MaxRules == 2

MaxRows == 2

MaxRegions == 2

MaxEdits == 2

MaxPrevSections == 2

\* All sequences over S of length at most n.
SeqsUpTo(S, n) == UNION {[1 .. k -> S] : k \in 0 .. n}

DistinctNames(s) == \A i, j \in 1 .. Len(s) : s[i].name = s[j].name => i = j

\* Region lengths: 100 B, 4 GiB (2^32), 1 TiB (2^40), 2^64 - 1.
Len100 == Num(100)

Len4G == << 0, 0, 1, 0 >>

Len1T == << 0, 0, 256, 0 >>

LenMax == << Base - 1, Base - 1, Base - 1, Base - 1 >>

\* Section sizes: 1 B, 2 B, 60 B, 2 GiB (2^31).
Size2G == << 0, Base \div 2, 0, 0 >>

\* A linker script that parses: its MEMORY commands and output sections.
Script(memory, output_sections) ==
    [kind |-> "script", memory |-> memory, output_sections |-> output_sections]

BrokenScripts ==
    {[kind |-> "missing"], [kind |-> "unreadable"], [kind |-> "garbled"],
     Script(<< >>, << >>)}

Table(rows) == [kind |-> "table", rows |-> rows]

BrokenSizeOutputs ==
    {[kind |-> "spawn_failed"], [kind |-> "not_utf8"], [kind |-> "bad_row"],
     [kind |-> "bad_size"]}

EditsPath == "edits.json"

EditsContent(edits) == [kind |-> "edits", edits |-> edits]

\* The current directory of a run: a directory, or None when it cannot be
\* told (env::current_dir() fails, line 542).
CurrentDirs == {Some("/work"), None}

EditsFiles(contents) ==
    {[files |-> [p \in {EditsPath} |-> c], cwd |-> d] :
        c \in contents, d \in CurrentDirs}

Group(source, dest, name) ==
    [kind |-> "GroupRegions", region_to_insert_as_section |-> source,
     output_region |-> dest, output_section_name |-> name]

Ign(region, name) ==
    [kind |-> "Ignore", region_name |-> region, section_name_to_ignore |-> name]

History(layout) == [kind |-> "layout", layout |-> layout]

NoHistory ==
    {[kind |-> "absent"], [kind |-> "unopenable"], [kind |-> "unreadable"],
     [kind |-> "malformed"]}

Region(name, length, secs) == [name |-> name, length |-> length, sections |-> secs]

Rec(name, size) == [name |-> name, size |-> size]

(***************************************************************************)
(* Correlation and aggregation: many linker scripts and size tables, one   *)
(* edits file.                                                             *)
(***************************************************************************)
CorrOutputSections ==
    {[name |-> n, region |-> p[1], lma_region |-> p[2]] :
        n \in {".text", ".data"},
        p \in {<< Some("FLASH"), None >>, << Some("RAM"), None >>,
               << Some("RAM"), Some("FLASH") >>, << None, Some("FLASH") >>}}

CorrRegions ==
    {[name |-> "FLASH", length |-> Len100], [name |-> "FLASH", length |-> Len1T],
     [name |-> "RAM", length |-> Len100]}

CorrScripts ==
    {Script(<< m >>, o) :
        m \in {r \in SeqsUpTo(CorrRegions, MaxRegions) : r # << >> /\ DistinctNames(r)},
        o \in SeqsUpTo(CorrOutputSections, MaxRules)}
    \cup BrokenScripts

CorrRows ==
    {[name |-> n, size |-> s, addr |-> "nonzero"] :
        n \in {".text", ".data"}, s \in {Zero, Num(1), Num(60), Size2G}}
    \cup {[name |-> ".text", size |-> Num(60), addr |-> a] :
            a \in {"missing", "unparsable", "zero"}}

CorrSizeOutputs ==
    {Table(rows) : rows \in SeqsUpTo(CorrRows, MaxRows)} \cup BrokenSizeOutputs

CorrEdits == << Ign("FLASH", MiscName), Group("RAM", "FLASH", "ram") >>

CorrFiles == EditsFiles({EditsContent(CorrEdits)})

CorrHistories == NoHistory

NextCorr ==
    \/ CheckElf
    \/ ReadHistory(CorrHistories)
    \/ GetSectionsSizes(CorrSizeOutputs, {Some(EditsPath)})
    \/ ReadLinkerScript(CorrScripts)
    \/ Correlate
    \/ AggregateRegion
    \/ GetSectionEdits(CorrFiles)
    \/ ApplyNextEdit
    \/ ReturnLayout
    \/ PrintNextRegion
    \/ Save

SpecCorr == Init /\ [][NextCorr]_vars

(***************************************************************************)
(* Properties of the correlator and the aggregator.                        *)
(***************************************************************************)
\* Some placement rule puts section n in region r, as its region or as its
\* load region.
Placed(n, r) ==
    \E j \in 1 .. Len(rules) :
        /\ rules[j].name = n
        /\ rules[j].region = r \/ rules[j].lma_region = Some(r)

Holds(secs, n, size) == \E i \in 1 .. Len(secs) : secs[i] = Rec(n, size)

\* C1 - Correlator completeness: when region ri has been correlated, a
\* section is in its list exactly when the size table gives it a nonzero
\* size and a placement rule names it with the region as its region or its
\* load region; sections of size zero, without a size or without such a
\* rule are in no list.
C1_CorrelatorCompleteness ==
    pc = "aggregate" =>
        LET r == regions[ri].name
        IN  /\ \A i \in 1 .. Len(sections) :
                  /\ sections[i].name \in DOMAIN sections_sizes
                  /\ sections[i].size = sections_sizes[sections[i].name]
                  /\ sections[i].size # Zero
                  /\ Placed(sections[i].name, r)
            /\ \A n \in DOMAIN sections_sizes :
                  (sections_sizes[n] # Zero /\ Placed(n, r))
                      => Holds(sections, n, sections_sizes[n])

\* C1 witness: the second region has been correlated; it is the load region
\* of a section whose primary region was the first one, the section is in
\* its list, and another section of the table, which no rule places here,
\* is not.
C1_Witness ==
    /\ pc = "aggregate"
    /\ ri = 2
    /\ \E j \in 1 .. Len(rules) :
          /\ rules[j].lma_region = Some(regions[2].name)
          /\ rules[j].region = regions[1].name
          /\ rules[j].name \in DOMAIN sections_sizes
          /\ Holds(sections, rules[j].name, sections_sizes[rules[j].name])
    /\ \E n \in DOMAIN sections_sizes :
          /\ ~Placed(n, regions[2].name)
          /\ \A i \in 1 .. Len(sections) : sections[i].name # n

BelowTwoPercent(record, capacity) == Less(MulSmall(50, record.size), capacity)

\* The exact sum of the sizes, in 64 bits.
RECURSIVE SumOfSizes(_)
SumOfSizes(records) ==
    IF records = << >> THEN Zero
    ELSE AddC(Head(records).size, SumOfSizes(Tail(records))).val

\* The section list the aggregation of `secs` in a region of the given
\* capacity is to produce: the sections at or above 2% in their order, then
\* "miscellaneous" with the sum of the others when that sum is not zero.
AggregatedAsClaimed(secs, capacity) ==
    LET AtLeast(record) == ~BelowTwoPercent(record, capacity)
        Below(record) == BelowTwoPercent(record, capacity)
        sum == SumOfSizes(SelectSeq(secs, Below))
    IN  SelectSeq(secs, AtLeast)
        \o (IF sum # Zero THEN << Rec(MiscName, sum) >> ELSE << >>)

\* C2 - Aggregation threshold: the aggregation of region ri adds the region
\* to the layout with the sections at or above 2% of its capacity in their
\* order, followed by one "miscellaneous" record holding the sum of the
\* sections below 2% when that sum is not zero.
C2_AggregationThreshold ==
    [][pc = "aggregate" =>
         /\ pc' = "correlate"
         /\ regions_better' =
               Append(regions_better,
                      Region(regions[ri].name, regions[ri].length,
                             AggregatedAsClaimed(sections, regions[ri].length)))]_vars

(***************************************************************************)
(* The edits: a few linker scripts with up to three regions, among them a  *)
(* 4 GiB region and one of 2^64 - 1 bytes, and many edits files.           *)
(***************************************************************************)
EditRegions ==
    {[name |-> "BOOT", length |-> Len4G], [name |-> "FLASH", length |-> Len100],
     [name |-> "FLASH", length |-> LenMax], [name |-> "RAM", length |-> Len100]}

\* .text and .data; or .text placed twice in FLASH by two output sections
\* of that name.
EditOutputSections ==
    {<< [name |-> ".text", region |-> Some("FLASH"), lma_region |-> None],
        [name |-> ".data", region |-> Some("RAM"), lma_region |-> Some("FLASH")] >>,
     << [name |-> ".text", region |-> Some("FLASH"), lma_region |-> None],
        [name |-> ".text", region |-> Some("FLASH"), lma_region |-> None] >>}

EditScripts ==
    {Script(<< m >>, o) :
        m \in {r \in SeqsUpTo(EditRegions, MaxRegions) : r # << >> /\ DistinctNames(r)},
        o \in EditOutputSections}
    \cup BrokenScripts

EditSizeOutputs ==
    {Table(<< [name |-> ".text", size |-> Num(60), addr |-> "nonzero"],
              [name |-> ".data", size |-> Num(60), addr |-> "nonzero"] >>)}
    \cup BrokenSizeOutputs

EditMenu ==
    {Group("BOOT", "FLASH", "bootloader"), Group("FLASH", "RAM", ".data"),
     Group("RAM", "FLASH", ".text"), Group("FLASH", "FLASH", "self"),
     Ign("FLASH", ".text"), Ign("RAM", ".data"), Ign("FLASH", "bootloader")}

EditFileSystems ==
    EditsFiles({EditsContent(e) : e \in SeqsUpTo(EditMenu, MaxEdits)}
               \cup {[kind |-> "malformed"], [kind |-> "unreadable"],
                     [kind |-> "unopenable"]})

EditArgs ==
    {None, Some(EditsPath), Some("missing.json"), Some("/work/missing.json")}

NextEdit ==
    \/ CheckElf
    \/ ReadHistory(NoHistory)
    \/ GetSectionsSizes(EditSizeOutputs, EditArgs)
    \/ ReadLinkerScript(EditScripts)
    \/ Correlate
    \/ AggregateRegion
    \/ GetSectionEdits(EditFileSystems)
    \/ ApplyNextEdit
    \/ ReturnLayout
    \/ PrintNextRegion
    \/ Save

SpecEdit == Init /\ [][NextEdit]_vars

(***************************************************************************)
(* Properties of the edits.                                                *)
(***************************************************************************)
HasRegion(layout, name) == \E i \in 1 .. Len(layout) : layout[i].name = name

\* The edit the run is about to apply.
AtEdit ==
    /\ pc = "edits"
    /\ section_edits # None
    /\ ei <= Len(Unwrap(section_edits))

NextEditIs(kind) == AtEdit /\ Unwrap(section_edits)[ei].kind = kind

\* The layout GroupRegions is to produce when both regions exist: the source
\* is removed, the destination starts with the record (name, capacity of the
\* source) and its capacity grows by that of the source.
GroupedAsClaimed(layout, e) ==
    LET si == CHOOSE i \in 1 .. Len(layout) :
                  layout[i].name = e.region_to_insert_as_section
        source == layout[si]
    IN  [i \in 1 .. (Len(layout) - 1) |->
           LET old == IF i < si THEN layout[i] ELSE layout[i + 1]
           IN  IF old.name = e.output_region
               THEN Region(old.name, AddC(old.length, source.length).val,
                           << Rec(e.output_section_name, source.length) >>
                           \o old.sections)
               ELSE old]

\* C3 - GroupRegions effect: with a source region and a different
\* destination region in the layout, the edit removes the source, puts the
\* record (synthetic name, capacity of the source) first in the
\* destination's list and adds the capacity of the source to that of the
\* destination, whatever 64-bit capacity the source has.
C3_GroupRegionsEffect ==
    [][(/\ NextEditIs("GroupRegions")
        /\ LET e == Unwrap(section_edits)[ei]
           IN  /\ HasRegion(regions_better, e.region_to_insert_as_section)
               /\ HasRegion(regions_better, e.output_region)
               /\ e.output_region # e.region_to_insert_as_section)
       => LET e == Unwrap(section_edits)[ei]
              si == PositionByName(regions_better, e.region_to_insert_as_section)
              di == PositionByName(regions_better, e.output_region)
          IN  /\ pc' = "edits"
              /\ AddC(regions_better[di].length, regions_better[si].length).carry = 0
              /\ regions_better' = GroupedAsClaimed(regions_better, e)]_vars

\* C4 - GroupRegions no-op: when the layout lacks the source region or the
\* destination region of the edit, the edit leaves the layout as it was and
\* the run goes on.
C4_GroupRegionsNoOp ==
    [][(/\ NextEditIs("GroupRegions")
        /\ LET e == Unwrap(section_edits)[ei]
           IN  \/ ~HasRegion(regions_better, e.region_to_insert_as_section)
               \/ ~HasRegion(regions_better, e.output_region))
       => /\ regions_better' = regions_better
          /\ pc' = "edits"
          /\ error' = None]_vars

Count(secs, name) == Cardinality({i \in 1 .. Len(secs) : secs[i].name = name})

\* C5 - Ignore effect: the edit removes the first record of the name from
\* the named region and nothing else: the other records of the region, later
\* ones of the same name among them, keep their order, the capacity and the
\* other regions are unchanged; without the region or the record the layout
\* is unchanged; the run goes on in both cases.
C5_IgnoreEffect ==
    [][NextEditIs("Ignore")
       => LET e == Unwrap(section_edits)[ei]
              old == regions_better
          IN  /\ pc' = "edits"
              /\ error' = None
              /\ Len(regions_better') = Len(old)
              /\ \A i \in 1 .. Len(old) :
                    LET before == old[i].sections
                        after == regions_better'[i].sections
                        first == {k \in 1 .. Len(before) :
                                     /\ before[k].name = e.section_name_to_ignore
                                     /\ \A j \in 1 .. (k - 1) :
                                           before[j].name # e.section_name_to_ignore}
                    IN  /\ regions_better'[i].name = old[i].name
                        /\ regions_better'[i].length = old[i].length
                        /\ IF old[i].name = e.region_name /\ first # {}
                           THEN \E k \in first :
                                   after = SubSeq(before, 1, k - 1)
                                           \o SubSeq(before, k + 1, Len(before))
                           ELSE after = before]_vars

\* C5 witness: the edit just applied is an Ignore whose region still holds a
\* record of the name: the first one was removed and a later one stayed.
C5_Witness ==
    /\ pc = "edits"
    /\ section_edits # None
    /\ ei > 1
    /\ LET e == Unwrap(section_edits)[ei - 1]
       IN  /\ e.kind = "Ignore"
           /\ \E i \in 1 .. Len(regions_better) :
                 /\ regions_better[i].name = e.region_name
                 /\ Count(regions_better[i].sections, e.section_name_to_ignore) > 0

\* The names the edits of the properties below are drawn from.
EditRegionNames == {"BOOT", "FLASH", "RAM", "NOWHERE"}

DestNames == {"FLASH", "RAM", "NOWHERE"}

EditSectionNames == {".text", ".data", "bootloader"}

SyntheticNames == {".text", "bootloader"}

\* C6 as claimed - Edit order sensitivity: for a region A of the layout,
\* Ignore(A, x) then GroupRegions(A, dest, s) and GroupRegions(A, dest, s)
\* then Ignore(A, x) end in different layouts.
C6_EditOrderSensitivity ==
    pc = "edits" =>
        \A a \in EditRegionNames, dest \in DestNames,
           s \in SyntheticNames, x \in EditSectionNames :
            HasRegion(regions_better, a)
                => RunEdits(regions_better,
                            << Ign(a, x), Group(a, dest, s) >>, overflow_checks)
                   # RunEdits(regions_better,
                              << Group(a, dest, s), Ign(a, x) >>, overflow_checks)

\* C6 as amended - for a region A of the layout, Ignore(A, x) then
\* GroupRegions(A, dest, s) and GroupRegions(A, dest, s) then Ignore(A, x)
\* end in the same layout: GroupRegions removes A with all its records, so
\* what the earlier Ignore removed leaves no trace, and the later Ignore
\* finds no region A.
C6_EditOrderSame ==
    pc = "edits" =>
        \A a \in EditRegionNames, dest \in DestNames,
           s \in SyntheticNames, x \in EditSectionNames :
            HasRegion(regions_better, a)
                => RunEdits(regions_better,
                            << Ign(a, x), Group(a, dest, s) >>, overflow_checks)
                   = RunEdits(regions_better,
                              << Group(a, dest, s), Ign(a, x) >>, overflow_checks)

\* The section list of the declared region `name` as correlation and
\* aggregation give it.
InitialSections(name) ==
    LET i == PositionByName(regions, name)
    IN  Aggregate(CorrelateRegion(name, rules, sections_sizes),
                  regions[i].length).sections

\* C6 witness: the run has applied Ignore(A, x) and then
\* GroupRegions(A, dest, s), where A held a record x; A is gone and dest
\* starts with the record s.
C6_Witness ==
    /\ pc = "edits"
    /\ section_edits # None
    /\ ei = 3
    /\ LET i == Unwrap(section_edits)[1]
           g == Unwrap(section_edits)[2]
       IN  /\ i.kind = "Ignore"
           /\ g.kind = "GroupRegions"
           /\ i.region_name = g.region_to_insert_as_section
           /\ HasRegion(regions, i.region_name)
           /\ Count(InitialSections(i.region_name), i.section_name_to_ignore) > 0
           /\ ~HasRegion(regions_better, i.region_name)
           /\ \E d \in 1 .. Len(regions_better) :
                 /\ regions_better[d].name = g.output_region
                 /\ regions_better[d].sections # << >>
                 /\ regions_better[d].sections[1].name = g.output_section_name

AllEdits ==
    {Group(a, dest, s) : a \in EditRegionNames, dest \in DestNames,
                         s \in SyntheticNames}
    \cup {Ign(a, x) : a \in EditRegionNames, x \in EditSectionNames}

\* C7 as claimed - Edit idempotence: applying an edit twice in succession
\* gives the layout that applying it once gives.
C7_EditIdempotence ==
    pc = "edits" =>
        \A e \in AllEdits :
            RunEdits(regions_better, << e, e >>, overflow_checks)
            = RunEdits(regions_better, << e >>, overflow_checks)

\* The region named by an Ignore holds two or more records of its name.
IgnoresOneOfSeveral(layout, e) ==
    \E i \in 1 .. Len(layout) :
        /\ layout[i].name = e.region_name
        /\ \A j \in 1 .. (i - 1) : layout[j].name # e.region_name
        /\ Count(layout[i].sections, e.section_name_to_ignore) >= 2

\* C7 as amended - GroupRegions applied twice gives what it gives applied
\* once; Ignore applied twice gives what it gives applied once exactly when
\* the named region holds at most one record of the name (with two or more,
\* the second application removes another one).
C7_EditIdempotenceAmended ==
    pc = "edits" =>
        \A e \in AllEdits :
            LET twice == RunEdits(regions_better, << e, e >>, overflow_checks)
                once == RunEdits(regions_better, << e >>, overflow_checks)
            IN  IF e.kind = "GroupRegions"
                THEN twice = once
                ELSE (twice = once) <=> ~IgnoresOneOfSeveral(regions_better, e)

\* C7 witness: the run has applied the same Ignore twice to a region that
\* held two records of the name, and both are gone.
C7_Witness ==
    /\ pc = "edits"
    /\ section_edits # None
    /\ ei = 3
    /\ LET e == Unwrap(section_edits)[1]
       IN  /\ Unwrap(section_edits)[2] = e
           /\ e.kind = "Ignore"
           /\ HasRegion(regions, e.region_name)
           /\ Count(InitialSections(e.region_name), e.section_name_to_ignore) = 2
           /\ \E i \in 1 .. Len(regions_better) :
                 /\ regions_better[i].name = e.region_name
                 /\ Count(regions_better[i].sections, e.section_name_to_ignore) = 0

\* C9 - Absent edits flag: in a run without the --section-edits option (its
\* edits path is "") the reading of the edits file, the step after the last
\* region is correlated, does not fail: the run goes on to the edits, with no
\* edit to apply.
C9_AbsentEditsFlag ==
    [][(edits_file = "" /\ pc = "correlate" /\ ri > Len(regions))
          => (pc' = "edits" /\ section_edits' = None)]_vars

\* C10 - Malformed edits file is fatal: the run gets past the reading of the
\* edits file, to the edits, the report and the end, only with edits that
\* decoded.
C10_MalformedEditsFatal ==
    pc \in {"edits", "print", "done"} => section_edits # None

(***************************************************************************)
(* The differ: a few layouts, many fw-size.last files.                     *)
(***************************************************************************)
PrevRecords == {Rec(".text", Num(1)), Rec(".text", Size2G), Rec(".data", Num(60))}

PrevRegions ==
    {Region(n, Len100, secs) :
        n \in {"FLASH", "RAM"}, secs \in SeqsUpTo(PrevRecords, MaxPrevSections)}

\* A second region of the last layout.
PrevSecondRegions ==
    {Region("FLASH", Len100, << Rec(".text", Num(60)) >>),
     Region("RAM", Len100, << Rec(".data", Num(1)) >>)}

DiffHistories ==
    {History(<< >>)}
    \cup {History(<< r >>) : r \in PrevRegions}
    \cup {History(<< r, q >>) : r \in PrevRegions, q \in PrevSecondRegions}
    \cup NoHistory

DiffScripts ==
    {Script(<< m >>,
            << [name |-> ".text", region |-> Some("FLASH"), lma_region |-> None],
               [name |-> ".data", region |-> Some("RAM"), lma_region |-> Some("FLASH")] >>) :
        m \in {<< [name |-> "FLASH", length |-> Len100] >>,
               << [name |-> "FLASH", length |-> Len100],
                  [name |-> "RAM", length |-> Len100] >>}}
    \cup BrokenScripts

DiffSizeOutputs ==
    {Table(<< [name |-> ".text", size |-> s, addr |-> "nonzero"] >> \o d) :
        s \in {Num(1), Num(60), Size2G},
        d \in {<< >>, << [name |-> ".data", size |-> Num(60), addr |-> "nonzero"] >>}}
    \cup BrokenSizeOutputs

DiffFileSystems ==
    EditsFiles({EditsContent(<< >>),
                EditsContent(<< Group("RAM", "FLASH", "ram") >>)})

NextDiff ==
    \/ CheckElf
    \/ ReadHistory(DiffHistories)
    \/ GetSectionsSizes(DiffSizeOutputs, {Some(EditsPath)})
    \/ ReadLinkerScript(DiffScripts)
    \/ Correlate
    \/ AggregateRegion
    \/ GetSectionEdits(DiffFileSystems)
    \/ ApplyNextEdit
    \/ ReturnLayout
    \/ PrintNextRegion
    \/ Save

SpecDiff == Init /\ [][NextDiff]_vars

(***************************************************************************)
(* Properties of the differ.                                               *)
(***************************************************************************)
Least(S) == CHOOSE x \in S : \A y \in S : x <= y

\* current = previous + delta.
IsDelta(delta, current, previous) ==
    IF delta.neg
    THEN delta.mag # Zero /\ AddC(current, delta.mag) = [val |-> previous, carry |-> 0]
    ELSE AddC(previous, delta.mag) = [val |-> current, carry |-> 0]

\* The delta of a record of region `reg` as claimed: against the record of
\* its name in the region of that name of the last layout, and zero without
\* a last layout, such a region or such a record.
DeltaAsClaimed(delta, reg, record) ==
    LET prev == IF last_sizes = None THEN << >> ELSE Unwrap(last_sizes)
        same_region == {j \in 1 .. Len(prev) : prev[j].name = reg.name}
    IN  IF same_region = {} THEN delta = ZeroI64
        ELSE LET prev_s == prev[Least(same_region)].sections
                 same_name == {m \in 1 .. Len(prev_s) : prev_s[m].name = record.name}
             IN  IF same_name = {} THEN delta = ZeroI64
                 ELSE IsDelta(delta, record.size, prev_s[Least(same_name)].size)

\* C8 - History diff: for every region the differ has handled it gave one
\* (record, delta) pair per record of the region, in order, with delta the
\* size now minus the size of the record of that name in the region of that
\* name of the last layout, and zero when there is no last layout, no such
\* region or no such record; records of the last layout alone give no pair.
C8_HistoryDiff ==
    /\ Len(report) <= Len(regions_better)
    /\ \A i \in 1 .. Len(report) :
          LET reg == regions_better[i]
          IN  /\ Len(report[i]) = Len(reg.sections)
              /\ \A k \in 1 .. Len(reg.sections) :
                    /\ report[i][k].name = reg.sections[k].name
                    /\ report[i][k].size = reg.sections[k].size
                    /\ DeltaAsClaimed(report[i][k].diff, reg, reg.sections[k])

\* C8 witness: a finished run whose report has a region of the last layout
\* with a record that changed, a record the last layout did not have (delta
\* zero), and the last layout had a record that is gone.
C8_Witness ==
    /\ pc = "done"
    /\ last_sizes # None
    /\ \E i \in 1 .. Len(report), j \in 1 .. Len(Unwrap(last_sizes)) :
          LET prev_s == Unwrap(last_sizes)[j].sections
          IN  /\ Unwrap(last_sizes)[j].name = regions_better[i].name
              /\ \E k \in 1 .. Len(report[i]) : report[i][k].diff.mag # Zero
              /\ \E k \in 1 .. Len(report[i]) :
                    /\ Count(prev_s, report[i][k].name) = 0
                    /\ report[i][k].diff = ZeroI64
              /\ \E m \in 1 .. Len(prev_s) :
                    Count(regions_better[i].sections, prev_s[m].name) = 0


(***************************************************************************)
(* Printing: a script with FLASH and RAM, .text in FLASH, .data and .bss   *)
(* in RAM, size tables over sizes on both sides of every unit, and a last  *)
(* layout to give the changes a sign.                                      *)
(***************************************************************************)
\* 2^30 - 32, halfway between two f32 values.
SizeBelow1G == << Base - 32, Base \div 4 - 1, 0, 0 >>

PrintSizes ==
    {Num(32), Num(128), Num(1024), Num(1152), Num(2048), Num(1024 * 1024),
     SizeBelow1G, Size2G}

\* A section name of 25 characters and a region name of 20: one more than
\* the heading and the lines of the report have room for.
LongSectionName == ".section_name_of_25_chars"

LongRegionName == "EXTERNAL_FLASH_BANK0"

PrintRows ==
    {[name |-> n, size |-> s, addr |-> "nonzero"] :
        n \in {".text", ".data", ".bss"}, s \in PrintSizes}
    \cup {[name |-> LongSectionName, size |-> Num(32), addr |-> "nonzero"]}

PrintSizeOutputs ==
    {Table(rows) : rows \in SeqsUpTo(PrintRows, MaxRows)} \cup BrokenSizeOutputs

PrintOutputSections ==
    << [name |-> ".text", region |-> Some("FLASH"), lma_region |-> None],
       [name |-> ".data", region |-> Some("RAM"), lma_region |-> None],
       [name |-> ".bss", region |-> Some("RAM"), lma_region |-> None],
       [name |-> LongSectionName, region |-> Some("RAM"), lma_region |-> None] >>

PrintScripts ==
    {Script(<< << [name |-> "FLASH", length |-> l],
                  [name |-> "RAM", length |-> Len100] >> >>,
            PrintOutputSections) :
        l \in {Len100, Num(1024 * 1024), Len4G}}
    \cup {Script(<< << [name |-> "RAM", length |-> Len100],
                       [name |-> LongRegionName, length |-> Len100] >> >>,
                 PrintOutputSections)}
    \cup BrokenScripts

PrintHistories ==
    {History(<< Region("FLASH", Len100, << Rec(".text", Num(1024)) >>) >>)}
    \cup NoHistory

PrintFileSystems ==
    EditsFiles({EditsContent(<< >>), EditsContent(<< Ign("RAM", ".bss") >>)})

NextPrint ==
    \/ CheckElf
    \/ ReadHistory(PrintHistories)
    \/ GetSectionsSizes(PrintSizeOutputs, {Some(EditsPath), Some("missing.json")})
    \/ ReadLinkerScript(PrintScripts)
    \/ Correlate
    \/ AggregateRegion
    \/ GetSectionEdits(PrintFileSystems)
    \/ ApplyNextEdit
    \/ ReturnLayout
    \/ PrintNextRegion
    \/ Save

SpecPrint == Init /\ [][NextPrint]_vars

(***************************************************************************)
(* Failure and output.                                                     *)
(***************************************************************************)
\* The run has ended in failure: main returned an error or the process
\* panicked.
EndedInFailure == pc \in {"failed", "panicked"}

\* C11 (abort before output): a run that ends in failure has printed no
\* region of the report and has not written the history file.
C11_AbortBeforeOutput ==
    EndedInFailure => printed = << >> /\ saved = None


(***************************************************************************)
(* The text of a size.                                                     *)
(***************************************************************************)
\* n / d rounded to the nearest integer, a tie going to the even one.
RoundedQuotient(q, r, d) ==
    IF 2 * r > d \/ (2 * r = d /\ q % 2 = 1) THEN q + 1 ELSE q

\* The text the authors' test expects: below 1024 the number and " B";
\* otherwise the number divided by the largest power of 1024 not above
\* it (1024^k), exactly, with two decimals and the unit.
SizeAsClaimed(num) ==
    IF num[2] = 0 /\ num[1] < 1024 THEN Decimal(num[1]) \o " B"
    ELSE LET k == IF num[2] < 16 THEN 1
                  ELSE IF num[2] < Base \div 4 THEN 2 ELSE 3
             p == MulSmall(100, num)
             q == CASE k = 1 -> (p[1] + p[2] * Base) \div 1024
                    [] k = 2 -> (p[2] \div 16) + p[3] * 4096
                    [] k = 3 -> (p[2] \div (Base \div 4)) + p[3] * 4
             r == CASE k = 1 -> (p[1] + p[2] * Base) % 1024
                    [] k = 2 -> (p[2] % 16) * Base + p[1]
                    [] k = 3 -> (p[2] % (Base \div 4)) * Base + p[1]
             h == RoundedQuotient(q, r, 2 ^ (10 * k))
         IN  Decimal(h \div 100) \o "." \o Digit((h \div 10) % 10)
             \o Digit(h % 10) \o " " \o << "KiB", "MiB", "GiB" >>[k]

\* C12 (size formatting): every section size of the printed report is
\* written as the authors' test expects: "32 B" for 32, "1.00 KiB" for
\* 1024, "1.00 MiB" for 1048576.
C12_SizeFormatting ==
    \A i \in 1 .. Len(printed) :
        \A j \in 1 .. Len(printed[i].lines) :
            printed[i].lines[j].size = SizeAsClaimed(report[i][j].size)


(***************************************************************************)
(* The order of the records of a region.                                   *)
(***************************************************************************)
\* The rules that give region r a record: they place their section in r
\* and the section has a size in the map.
RecordRules(r) ==
    {p \in 1 .. Len(rules) :
        /\ rules[p].region = r \/ rules[p].lma_region = Some(r)
        /\ rules[p].name \in DOMAIN sections_sizes}

\* The i-th smallest element of a set of numbers.
Nth(S, i) == CHOOSE p \in S : Cardinality({q \in S : q < p}) = i - 1

\* C13 as stated (correlation order): after a region is correlated, its
\* records follow the order in which the size table listed the sections:
\* of two records of different sections, the earlier one's section was
\* discovered earlier.
C13_DiscoveryOrder ==
    pc = "aggregate" =>
        \A i, j \in 1 .. Len(sections) :
            (i < j /\ sections[i].name # sections[j].name) =>
                \E p, q \in 1 .. Len(discovered) :
                    /\ p < q
                    /\ discovered[p] = sections[i].name
                    /\ discovered[q] = sections[j].name

\* C13 amended (correlation order): after a region is correlated, its
\* records follow the order of the placement rules in the linker script:
\* there is one record per rule that places a sized section in the region,
\* and the i-th record is the section of the i-th such rule.
C13_RuleOrder ==
    pc = "aggregate" =>
        LET I == RecordRules(regions[ri].name)
        IN  /\ Len(sections) = Cardinality(I)
            /\ \A i \in 1 .. Len(sections) :
                  sections[i] = Rec(rules[Nth(I, i)].name,
                                    sections_sizes[rules[Nth(I, i)].name])

\* C13 witness: a region has been correlated into two records of different
\* sections, and the size table listed the two sections in the opposite
\* order.
C13_Witness ==
    /\ pc = "aggregate"
    /\ Len(sections) = 2
    /\ sections[1].name # sections[2].name
    /\ discovered = << sections[2].name, sections[1].name >>
    /\ rules[1].name = sections[1].name
    /\ rules[2].name = sections[2].name

=============================================================================
